---- MODULE Spec2Model ----
(***************************************************************************)
(* A model of bot.js: the message dispatcher, the three command handlers   *)
(* ($tagall!, $remind, $roast), their helpers, and the event loop (awaited *)
(* calls, setTimeout timers) they run on.                                  *)
(*                                                                         *)
(* Identifiers are pairs <<suffix, n>>: <<"c.us", n>> is the contact       *)
(* 'n@c.us', <<"g.us", n>> a group.  The value undefined is <<>>.          *)
(* A message body is a sequence of symbols: the command words are single   *)
(* symbols ("$tagall!", "$remind", "$roast" and their upper-case forms),   *)
(* everything else is a character.                                         *)
(***************************************************************************)
EXTENDS Integers, Sequences, FiniteSets, TLC

(* ------------------------------ bounds --------------------------------- *)
\* messages delivered to the bot in one run
MaxMsgs == 2
\* the largest group has MaxBatches full batches and one participant more
MaxBatches == 2
\* longest text the pure-function specification enumerates
MaxLen == 4
\* longest participant list the pure-function specification enumerates
MaxPart == 2

(* --------------------------- configuration ----------------------------- *)
undefined == <<>>
User(n) == <<"c.us", n>>
GroupId == <<"g.us", 1>>

\* bot.js:22  the contact 0 stands for '916239232874@c.us'
SUPER_ADMINS == {User(0)}
\* bot.js:28
TAG_BATCH_SIZE == 50
\* bot.js:29
TAG_DELAY_MS == 1000
\* Node's timers: a delay above TIMEOUT_MAX (2^31 - 1 ms) is set to 1 ms.
\* Delays here are whole seconds, so the test is made on seconds:
\* s * 1000 > 2147483647  <=>  s > 2147483.
TIMEOUT_MAX_S == 2147483

(* --------------------------- sequence helpers -------------------------- *)
\* Array.prototype.slice(a, b) on 0-based indices: elements a .. b-1
slice(arr, a, b) ==
  LET hi == IF b < Len(arr) THEN b ELSE Len(arr)
  IN  IF a >= hi THEN <<>> ELSE [k \in 1..(hi - a) |-> arr[a + k]]

RECURSIVE SeqsUpTo(_, _)
SeqsUpTo(S, n) ==
  IF n = 0 THEN {<<>>}
  ELSE LET shorter == SeqsUpTo(S, n - 1)
       IN  shorter \cup {Append(s, x) : s \in {t \in shorter : Len(t) = n - 1}, x \in S}

(* ------------------------------ strings -------------------------------- *)
Digits == {"0", "1", "2", "3", "5", "9"}
IsDigit(c) == c \in Digits
IsSpace(c) == c = " "

toLowerCaseSym(c) ==
  CASE c = "$TAGALL!" -> "$tagall!"
    [] c = "$REMIND"  -> "$remind"
    [] c = "$ROAST"   -> "$roast"
    [] c = "H" -> "h"
    [] c = "M" -> "m"
    [] c = "S" -> "s"
    [] OTHER -> c

\* String.prototype.toLowerCase
toLowerCase(str) == [k \in 1..Len(str) |-> toLowerCaseSym(str[k])]

\* String.prototype.trim
trim(str) ==
  LET keep == {k \in 1..Len(str) : ~IsSpace(str[k])}
  IN  IF keep = {} THEN <<>>
      ELSE LET lo == CHOOSE k \in keep : \A j \in keep : k <= j
               hi == CHOOSE k \in keep : \A j \in keep : k >= j
           IN  [k \in 1..(hi - lo + 1) |-> str[lo + k - 1]]

\* String.prototype.startsWith, for a command word
startsWith(str, word) == Len(str) >= 1 /\ str[1] = word

DigitVal(c) ==
  CASE c = "0" -> 0 [] c = "1" -> 1 [] c = "2" -> 2
    [] c = "3" -> 3 [] c = "5" -> 5 [] c = "9" -> 9

\* parseInt(digits, 10)
RECURSIVE parseInt(_)
parseInt(ds) ==
  IF ds = <<>> THEN 0
  ELSE parseInt(SubSeq(ds, 1, Len(ds) - 1)) * 10 + DigitVal(ds[Len(ds)])

\* Whether /(\d+)\s*u/ matches str with the digits starting at position i
\* and taken greedily up to position j; the optional letters after u
\* ("our", "inute", "econd", "s") change neither the match nor group 1.
MatchAt(str, u, i, j) ==
  /\ i <= j /\ j <= Len(str)
  /\ \A k \in i..j : IsDigit(str[k])
  /\ (j = Len(str) \/ ~IsDigit(str[j + 1]))
  /\ \E e \in (j + 1)..Len(str) :
        /\ str[e] = u
        /\ \A k \in (j + 1)..(e - 1) : IsSpace(str[k])

\* String.prototype.match with a non-global regex: the leftmost match only.
\* The result is group 1 (the digits), or undefined when nothing matches.
match(str, u) ==
  LET starts == {i \in 1..Len(str) : \E j \in i..Len(str) : MatchAt(str, u, i, j)}
  IN  IF starts = {} THEN undefined
      ELSE LET i == CHOOSE x \in starts : \A y \in starts : x <= y
               j == CHOOSE y \in i..Len(str) : MatchAt(str, u, i, y)
           IN  <<SubSeq(str, i, j)>>

\* a match with the g flag, amounts added up: every occurrence of the
\* pattern of unit u contributes
RECURSIVE SumAmounts(_, _, _)
SumAmounts(str, u, i) ==
  IF i > Len(str) THEN 0
  ELSE LET ends == {j \in i..Len(str) : MatchAt(str, u, i, j)}
       IN  IF ends = {} \/ (i > 1 /\ IsDigit(str[i - 1])) THEN SumAmounts(str, u, i + 1)
           ELSE LET j == CHOOSE y \in ends : TRUE
                IN  parseInt(SubSeq(str, i, j)) + SumAmounts(str, u, j + 1)

totalSeconds_EveryOccurrence(command) ==
  (SumAmounts(command, "h", 1) * 3600) + (SumAmounts(command, "m", 1) * 60)
    + SumAmounts(command, "s", 1)

\* bot.js:202-211  the duration of a $remind command
timeParts(command) ==
  [hours |-> match(command, "h"), minutes |-> match(command, "m"),
   seconds |-> match(command, "s")]

ParseHours(command) ==
  IF timeParts(command).hours # undefined THEN parseInt(timeParts(command).hours[1]) ELSE 0
ParseMinutes(command) ==
  IF timeParts(command).minutes # undefined THEN parseInt(timeParts(command).minutes[1]) ELSE 0
ParseSeconds(command) ==
  IF timeParts(command).seconds # undefined THEN parseInt(timeParts(command).seconds[1]) ELSE 0

totalSeconds(command) ==
  (ParseHours(command) * 3600) + (ParseMinutes(command) * 60) + ParseSeconds(command)

(* --------------------------- authorization ----------------------------- *)
\* Array.prototype.find: the first element satisfying the test, or undefined
find(arr, id) ==
  LET hits == {k \in 1..Len(arr) : arr[k].id = id}
  IN  IF hits = {} THEN undefined
      ELSE arr[CHOOSE k \in hits : \A j \in hits : k <= j]

senderIdOf(message) ==
  IF message.author # undefined THEN message.author ELSE message.from

\* the admin flag is not looked at
isUserAuthorized_AnyParticipant(message, chat) ==
  LET senderId == senderIdOf(message)
      senderParticipant == find(chat.participants, senderId)
  IN  IF senderId \in SUPER_ADMINS THEN TRUE
      ELSE IF chat.isGroup /\ senderParticipant # undefined THEN TRUE
           ELSE FALSE

\* the allow-list is looked at in groups only
isUserAuthorized_SuperInGroupOnly(message, chat) ==
  LET senderId == senderIdOf(message)
      senderParticipant == find(chat.participants, senderId)
  IN  IF chat.isGroup
      THEN IF senderId \in SUPER_ADMINS THEN TRUE
           ELSE IF senderParticipant # undefined /\ senderParticipant.isAdmin
                THEN TRUE
                ELSE FALSE
      ELSE FALSE

\* bot.js:111-123
isUserAuthorized(message, chat) ==
  LET senderId == senderIdOf(message)
      senderParticipant == find(chat.participants, senderId)
  IN  IF senderId \in SUPER_ADMINS THEN TRUE
      ELSE IF chat.isGroup
              /\ senderParticipant # undefined /\ senderParticipant.isAdmin
           THEN TRUE
           ELSE FALSE

(* ------------------------------- state --------------------------------- *)
VARIABLES
  now,      \* the clock, in milliseconds
  alive,    \* FALSE once the process has been terminated
  group,    \* the group chat as the messaging service holds it
  h,        \* h[m]: the handler of message m (its position and locals)
  sent,     \* sent[m]: the chat.sendMessage calls made for message m
  replies,  \* replies[m]: the message.reply calls made for message m
  timer,    \* timer[m]: the setTimeout callback scheduled for message m
  escaped,  \* messages whose listener ended in a rejected promise
  pure      \* the input and result of a helper applied on its own

vars == <<now, alive, group, h, sent, replies, timer, escaped, pure>>

Msgs == 1..MaxMsgs


(* ---------------------------- environment ------------------------------ *)
\* A group of n participants 1@c.us .. n@c.us, in that order; the first one
\* is a group admin.
GroupOf(n) ==
  [id |-> GroupId, isGroup |-> TRUE,
   participants |-> [k \in 1..n |-> [id |-> User(k), isAdmin |-> (k = 1)]]]

\* The private chat with a contact
PrivateChatOf(id) == [id |-> id, isGroup |-> FALSE, participants |-> <<>>]

GroupSizes == {0, TAG_BATCH_SIZE, MaxBatches * TAG_BATCH_SIZE + 1}

\* An incoming message: in a group, author is the sender and from the
\* group; in a private chat author is undefined and from the sender.
GroupMessage(body, sender, mentions) ==
  [body |-> body, author |-> sender, from |-> GroupId, mentions |-> mentions]
PrivateMessage(body, sender, mentions) ==
  [body |-> body, author |-> undefined, from |-> sender, mentions |-> mentions]

TagAllMessages ==
  {GroupMessage(<<"$tagall!">>, User(k), <<>>) : k \in {0, 1, 2}}
    \cup {PrivateMessage(<<" ", "$TAGALL!">>, User(k), <<>>) : k \in {0, 2}}

\* $remind texts: 5 seconds; no unit; a zero amount; 999 hours
RemindBodies ==
  { <<"$remind", " ", "5", "s">>,
    <<"$remind">>,
    <<"$remind", "0", "h">>,
    <<"$REMIND", "9", "9", "9", "H">> }

RemindMessages ==
  {GroupMessage(b, User(2), <<>>) : b \in RemindBodies}
    \cup {GroupMessage(<<"$remind", "1", "h", "2", "m">>, User(2), <<User(1), User(3)>>),
          PrivateMessage(<<"$remind", " ", "5", "s">>, User(2), <<>>)}

RoastMessages ==
  {GroupMessage(<<"$roast">>, User(2), ms) : ms \in {<<>>, <<User(1), User(3)>>}}

OtherMessages == {GroupMessage(<<"x", "$roast">>, User(2), <<>>)}

Messages == TagAllMessages \cup RemindMessages \cup RoastMessages \cup OtherMessages

\* What roasts.txt may hold when it is read: unreadable, or its lines
RoastFiles == {undefined, <<<<>>>>, <<<<" ">>, <<>>>>, <<<<"a">>, <<" ">>, <<"b">>>>}

(* ----------------------------- the handlers ---------------------------- *)
Idle ==
  [pc |-> "idle", handler |-> "none", message |-> undefined, contact |-> undefined,
   chat |-> undefined, i |-> 0, wakeAt |-> 0, target |-> undefined,
   hours |-> 0, minutes |-> 0, seconds |-> 0, outcome |-> "none",
   read |-> FALSE, corpus |-> undefined]

NoTimer == [state |-> "none", due |-> 0, setAt |-> 0, firedAt |-> 0, total |-> 0]

\* bot.js:86-96  the handler the dispatcher calls for a message body
\* the raw text is lower-cased but not trimmed
HandlerFor_NoTrim(body) ==
  LET command == toLowerCase(body)
  IN  IF startsWith(command, "$tagall!") THEN "tagall"
      ELSE IF startsWith(command, "$remind") THEN "remind"
      ELSE IF startsWith(command, "$roast") THEN "roast"
      ELSE "none"

HandlerFor(body) ==
  LET command == toLowerCase(trim(body))
  IN  IF startsWith(command, "$tagall!") THEN "tagall"
      ELSE IF startsWith(command, "$remind") THEN "remind"
      ELSE IF startsWith(command, "$roast") THEN "roast"
      ELSE "none"

\* the reply of each handler's catch block (bot.js:188, 239, 270)
FailureNotice(handler) ==
  CASE handler = "tagall" -> "tagall-failure"
    [] handler = "remind" -> "remind-failure"
    [] handler = "roast"  -> "roast-failure"

\* an awaited call settles: its record gets its result and its end time
Settle(calls, ok) ==
  [calls EXCEPT ![Len(calls)] =
      [@ EXCEPT !.status = IF ok THEN "ok" ELSE "failed", !.t1 = now]]

Call(calls, c) == Append(calls, c @@ [status |-> "pending", t0 |-> now, t1 |-> 0])

Update(m, hm, s, r) ==
  /\ h' = [h EXCEPT ![m] = hm]
  /\ sent' = [sent EXCEPT ![m] = s]
  /\ replies' = [replies EXCEPT ![m] = r]

\* the handler's work ends with a reply (refusal, usage, format)
ReplyAndStop(m, hm, s, r, text) ==
  Update(m, [hm EXCEPT !.pc = "reply", !.outcome = text], s, Call(r, [text |-> text]))

\* an awaited call threw: control passes to the handler's catch block,
\* which logs and replies with the failure notice
Throw(m, hm, s, r) ==
  Update(m, [hm EXCEPT !.pc = "catchReply"], s,
         Call(r, [text |-> FailureNotice(hm.handler)]))

\* a sleep that resolves at once
sleep_NoDelay(ms) == now
\* setTimeout(resolve, ms) of sleep (bot.js:102): the time it resolves
sleep(ms) == now + ms

\* the effective delay, in ms, of setTimeout(cb, seconds * 1000)
setTimeoutDelay(seconds) == IF seconds > TIMEOUT_MAX_S THEN 1 ELSE seconds * 1000

(* ------------------------------ $tagall! ------------------------------- *)
\* bot.js:174-181  the message of the batch that starts at index i
BatchStart(i) == i
\* a wrong end index: slice(i, TAG_BATCH_SIZE)
BatchEnd_NoOffset(i) == TAG_BATCH_SIZE
BatchEnd(i) == i + TAG_BATCH_SIZE
NextIndex(i) == i + TAG_BATCH_SIZE

TagMessage(chat, i) ==
  LET batch == slice(chat.participants, BatchStart(i), BatchEnd(i))
  IN  [type |-> "tag", chat |-> chat.id, index |-> i,
       text |-> [k \in 1..Len(batch) |-> batch[k].id[2]],
       mentions |-> [k \in 1..Len(batch) |-> batch[k].id]]

\* bot.js:173  the loop test, then either the next send or the end
TagLoop(m, hm, s, r) ==
  IF hm.i < Len(hm.chat.participants)
  THEN Update(m, [hm EXCEPT !.pc = "send"], Call(s, TagMessage(hm.chat, hm.i)), r)
  ELSE Update(m, [hm EXCEPT !.pc = "done", !.outcome = "finished"], s, r)

\* the authorization is checked before the chat's kind
TagAllChecks_AuthFirst(m, hm, s, r) ==
  IF ~isUserAuthorized(hm.message, hm.chat) THEN ReplyAndStop(m, hm, s, r, "privilege")
  ELSE IF ~hm.chat.isGroup THEN ReplyAndStop(m, hm, s, r, "group-only")
  ELSE TagLoop(m, [hm EXCEPT !.i = 0], s, r)

\* bot.js:164-172  after contact and chat are resolved
TagAllChecks(m, hm, s, r) ==
  IF ~hm.chat.isGroup THEN ReplyAndStop(m, hm, s, r, "group-only")
  ELSE IF ~isUserAuthorized(hm.message, hm.chat) THEN ReplyAndStop(m, hm, s, r, "privilege")
  ELSE TagLoop(m, [hm EXCEPT !.i = 0], s, r)

\* a failed send is ignored and the loop goes on
TagBatchSent_GoOnAfterError(m) ==
  /\ alive /\ h[m].pc = "send" /\ h[m].handler = "tagall"
  /\ \E ok \in BOOLEAN :
       Update(m, [h[m] EXCEPT !.pc = "sleep", !.wakeAt = sleep(TAG_DELAY_MS)],
              Settle(sent[m], ok), replies[m])
  /\ UNCHANGED <<now, alive, group, timer, escaped, pure>>

\* bot.js:181-183  the send of a batch settles; on success the pause starts
TagBatchSent(m) ==
  /\ alive /\ h[m].pc = "send" /\ h[m].handler = "tagall"
  /\ \E ok \in BOOLEAN :
       IF ok
       THEN Update(m, [h[m] EXCEPT !.pc = "sleep", !.wakeAt = sleep(TAG_DELAY_MS)],
                   Settle(sent[m], TRUE), replies[m])
       ELSE Throw(m, h[m], Settle(sent[m], FALSE), replies[m])
  /\ UNCHANGED <<now, alive, group, timer, escaped, pure>>

\* bot.js:183, 173  the pause is over: i += TAG_BATCH_SIZE and the loop test
TagSleepDone(m) ==
  /\ alive /\ h[m].pc = "sleep" /\ now >= h[m].wakeAt
  /\ TagLoop(m, [h[m] EXCEPT !.i = NextIndex(h[m].i)], sent[m], replies[m])
  /\ UNCHANGED <<now, alive, group, timer, escaped, pure>>

(* ------------------------------- $remind ------------------------------- *)
\* bot.js:223-226  the confirmation: the target and the non-zero units
Breakdown(hm) ==
  (IF hm.hours > 0 THEN <<<<hm.hours, "hour(s)">>>> ELSE <<>>)
    \o (IF hm.minutes > 0 THEN <<<<hm.minutes, "minute(s)">>>> ELSE <<>>)
    \o (IF hm.seconds > 0 THEN <<<<hm.seconds, "second(s)">>>> ELSE <<>>)

\* a test that lets a zero duration through
ParseFailed_NegativeOnly(total) == total < 0
\* bot.js:212
ParseFailed(total) == total <= 0

\* bot.js:198-216  after contact and chat are resolved
RemindParse(m, hm, s, r) ==
  LET command == toLowerCase(hm.message.body)
      parsed == [hm EXCEPT !.hours = ParseHours(command),
                           !.minutes = ParseMinutes(command),
                           !.seconds = ParseSeconds(command)]
  IN  IF ParseFailed(totalSeconds(command))
      THEN ReplyAndStop(m, parsed, s, r, "format")
      ELSE Update(m, [parsed EXCEPT !.pc = "getMentions"], s, r)

\* bot.js:215-227  the target, then the confirmation is sent
RemindTarget(hm, mentions) ==
  IF Len(mentions) > 0 THEN mentions[1] ELSE hm.contact

RemindConfirm(m, hm, s, r, mentions) ==
  LET tm == [hm EXCEPT !.target = RemindTarget(hm, mentions)]
  IN  Update(m, [tm EXCEPT !.pc = "send"],
             Call(s, [type |-> "confirm", chat |-> hm.chat.id,
                      text |-> <<tm.target[2], Breakdown(tm)>>,
                      mentions |-> <<tm.target>>]), r)

\* bot.js:228, 236  setTimeout(callback, totalSeconds * 1000)
Schedule(hm) ==
  LET total == (hm.hours * 3600) + (hm.minutes * 60) + hm.seconds
  IN  [state |-> "pending", due |-> now + setTimeoutDelay(total), setAt |-> now,
       firedAt |-> 0, total |-> total]

\* the timer is set before the confirmation send is awaited
RemindConfirmSent_ScheduleFirst(m) ==
  /\ alive /\ h[m].pc = "send" /\ h[m].handler = "remind"
  /\ \E ok \in BOOLEAN :
       IF ok
       THEN Update(m, [h[m] EXCEPT !.pc = "done", !.outcome = "scheduled"],
                   Settle(sent[m], TRUE), replies[m])
       ELSE Throw(m, h[m], Settle(sent[m], FALSE), replies[m])
  /\ timer' = [timer EXCEPT ![m] = Schedule(h[m])]
  /\ UNCHANGED <<now, alive, group, escaped, pure>>

\* bot.js:227-236  the confirmation send settles; on success the reminder
\* is scheduled and the handler returns
RemindConfirmSent(m) ==
  /\ alive /\ h[m].pc = "send" /\ h[m].handler = "remind"
  /\ \E ok \in BOOLEAN :
       IF ok
       THEN /\ Update(m, [h[m] EXCEPT !.pc = "done", !.outcome = "scheduled"],
                      Settle(sent[m], TRUE), replies[m])
            /\ timer' = [timer EXCEPT ![m] = Schedule(h[m])]
       ELSE /\ Throw(m, h[m], Settle(sent[m], FALSE), replies[m])
            /\ UNCHANGED timer
  /\ UNCHANGED <<now, alive, group, escaped, pure>>

\* bot.js:228-231  the timer fires: the callback sends the reminder
TimerFire(m) ==
  /\ alive /\ timer[m].state = "pending" /\ now >= timer[m].due
  /\ timer' = [timer EXCEPT ![m] = [@ EXCEPT !.state = "sending", !.firedAt = now]]
  /\ sent' = [sent EXCEPT ![m] =
                Call(@, [type |-> "reminder", chat |-> h[m].chat.id,
                         text |-> <<h[m].target[2]>>, mentions |-> <<h[m].target>>])]
  /\ UNCHANGED <<now, alive, group, h, replies, escaped, pure>>

\* a failed reminder is answered with a reply, as the handlers do
ReminderSent_ReplyOnFailure(m) ==
  /\ alive /\ timer[m].state = "sending"
  /\ \E ok \in BOOLEAN :
       /\ timer' = [timer EXCEPT ![m] = [@ EXCEPT !.state = IF ok THEN "sent" ELSE "failed"]]
       /\ sent' = [sent EXCEPT ![m] = Settle(@, ok)]
       /\ replies' = [replies EXCEPT ![m] =
                        IF ok THEN @ ELSE Call(@, [text |-> "remind-failure"])]
  /\ UNCHANGED <<now, alive, group, h, escaped, pure>>

\* bot.js:231-235  the reminder send settles; a failure is logged, no more
ReminderSent(m) ==
  /\ alive /\ timer[m].state = "sending"
  /\ \E ok \in BOOLEAN :
       /\ timer' = [timer EXCEPT ![m] = [@ EXCEPT !.state = IF ok THEN "sent" ELSE "failed"]]
       /\ sent' = [sent EXCEPT ![m] = Settle(@, ok)]
  /\ UNCHANGED <<now, alive, group, h, replies, escaped, pure>>

(* -------------------------------- $roast ------------------------------- *)
\* the two fixed strings of getRandomRoast (bot.js:138, 146), one symbol each
ROAST_UNREADABLE == <<"roast-unreadable">>
ROAST_EMPTY == <<"roast-empty">>

\* blank lines are kept
getRandomRoast_NoFilter(file, index) ==
  IF file = undefined THEN ROAST_UNREADABLE
  ELSE IF Len(file) = 0 THEN ROAST_EMPTY
       ELSE file[(index % Len(file)) + 1]

\* bot.js:130-148  file is what readFileSync(...).split('\n') finds
\* (undefined: it throws), index the line Math.random picks
getRandomRoast(file, index) ==
  IF file = undefined THEN ROAST_UNREADABLE
  ELSE LET lines == SelectSeq(file, LAMBDA line : trim(line) # <<>>)
       IN  IF Len(lines) = 0 THEN ROAST_EMPTY
           ELSE lines[(index % Len(lines)) + 1]

\* the corpus is read and a line selected before the mentions are looked at
RoastBody_SelectFirst(m, hm, s, r, mentions, file, index) ==
  LET rm == [hm EXCEPT !.read = TRUE, !.corpus = file]
      roast == getRandomRoast(file, index)
  IN  IF Len(mentions) = 0 THEN ReplyAndStop(m, rm, s, r, "usage")
      ELSE Update(m, [rm EXCEPT !.pc = "send", !.target = mentions[1]],
                  Call(s, [type |-> "roast", chat |-> hm.chat.id,
                           text |-> <<mentions[1][2], roast>>,
                           mentions |-> <<mentions[1]>>]), r)

\* bot.js:256-265  after the mentions are resolved; read and corpus record
\* that getRandomRoast was called and what its readFileSync found
RoastBody(m, hm, s, r, mentions, file, index) ==
  IF Len(mentions) = 0 THEN ReplyAndStop(m, hm, s, r, "usage")
  ELSE LET tm == [hm EXCEPT !.target = mentions[1], !.read = TRUE, !.corpus = file]
           roast == getRandomRoast(file, index)
       IN  Update(m, [tm EXCEPT !.pc = "send"],
                  Call(s, [type |-> "roast", chat |-> hm.chat.id,
                           text |-> <<tm.target[2], roast>>,
                           mentions |-> <<tm.target>>]), r)

\* bot.js:265-266  the roast send settles
RoastSent(m) ==
  /\ alive /\ h[m].pc = "send" /\ h[m].handler = "roast"
  /\ \E ok \in BOOLEAN :
       IF ok
       THEN Update(m, [h[m] EXCEPT !.pc = "done", !.outcome = "roasted"],
                   Settle(sent[m], TRUE), replies[m])
       ELSE Throw(m, h[m], Settle(sent[m], FALSE), replies[m])
  /\ UNCHANGED <<now, alive, group, timer, escaped, pure>>

(* ------------------------ dispatcher, shared steps --------------------- *)
\* bot.js:86-96  a message arrives: the listener picks the handler, which
\* runs up to its first await (message.getContact)
Receive(m, message) ==
  /\ alive /\ h[m].pc = "idle"
  /\ \A k \in Msgs : k < m => h[k].pc # "idle"
  /\ LET handler == HandlerFor(message.body)
     IN  h' = [h EXCEPT ![m] =
                 IF handler = "none"
                 THEN [Idle EXCEPT !.pc = "done", !.message = message, !.outcome = "unmatched"]
                 ELSE [Idle EXCEPT !.pc = "getContact", !.message = message,
                                   !.handler = handler]]
  /\ UNCHANGED <<now, alive, group, sent, replies, timer, escaped, pure>>

\* bot.js:161, 199, 250  await message.getContact()
GetContact(m) ==
  /\ alive /\ h[m].pc = "getContact"
  /\ \E ok \in BOOLEAN :
       IF ok
       THEN Update(m, [h[m] EXCEPT !.pc = "getChat", !.contact = senderIdOf(h[m].message)],
                   sent[m], replies[m])
       ELSE Throw(m, h[m], sent[m], replies[m])
  /\ UNCHANGED <<now, alive, group, timer, escaped, pure>>

\* the group is kept from the first command that resolved it
ChatOf_Cached(message) ==
  IF message.author # undefined
  THEN LET seen == {k \in Msgs : h[k].chat # undefined /\ h[k].chat.id = GroupId}
       IN  IF seen = {} THEN group
           ELSE h[CHOOSE k \in seen : \A j \in seen : k <= j].chat
  ELSE PrivateChatOf(message.from)

\* message.getChat(): the chat as it is now
ChatOf(message) ==
  IF message.author # undefined THEN group ELSE PrivateChatOf(message.from)

\* bot.js:162, 200, 251  await message.getChat(), and what follows it up to
\* the handler's next await
GetChat(m) ==
  /\ alive /\ h[m].pc = "getChat"
  /\ \E ok \in BOOLEAN :
       IF ok
       THEN LET hm == [h[m] EXCEPT !.chat = ChatOf(h[m].message)]
            IN  CASE hm.handler = "tagall" -> TagAllChecks(m, hm, sent[m], replies[m])
                  [] hm.handler = "remind" -> RemindParse(m, hm, sent[m], replies[m])
                  [] hm.handler = "roast" ->
                       Update(m, [hm EXCEPT !.pc = "getMentions"], sent[m], replies[m])
       ELSE Throw(m, h[m], sent[m], replies[m])
  /\ UNCHANGED <<now, alive, group, timer, escaped, pure>>

\* bot.js:216, 254  await message.getMentions(), and what follows it
GetMentions(m) ==
  /\ alive /\ h[m].pc = "getMentions"
  /\ \E ok \in BOOLEAN :
       IF ok
       THEN IF h[m].handler = "remind"
            THEN RemindConfirm(m, h[m], sent[m], replies[m], h[m].message.mentions)
            ELSE \E file \in RoastFiles, index \in 0..1 :
                   RoastBody(m, h[m], sent[m], replies[m], h[m].message.mentions,
                             file, index)
       ELSE Throw(m, h[m], sent[m], replies[m])
  /\ UNCHANGED <<now, alive, group, timer, escaped, pure>>

\* bot.js:165, 169, 213, 257  `return await message.reply(...)` settles
ReplyDone(m) ==
  /\ alive /\ h[m].pc = "reply"
  /\ \E ok \in BOOLEAN :
       IF ok
       THEN Update(m, [h[m] EXCEPT !.pc = "done"], sent[m], Settle(replies[m], TRUE))
       ELSE Throw(m, h[m], sent[m], Settle(replies[m], FALSE))
  /\ UNCHANGED <<now, alive, group, timer, escaped, pure>>

\* What an unhandled promise rejection does to the process: nothing but a
\* warning, or the end of the process, by the version and flags of Node.
AliveAfterRejection == BOOLEAN

\* bot.js:188, 239, 270  the reply of the catch block settles.  If it threw,
\* nothing catches it: the handler's promise rejects, and with it the
\* listener's (bot.js:90-94), which nothing handles.
CatchReplyDone(m) ==
  /\ alive /\ h[m].pc = "catchReply"
  /\ \E ok \in BOOLEAN :
       IF ok
       THEN /\ Update(m, [h[m] EXCEPT !.pc = "done", !.outcome = "failed"],
                      sent[m], Settle(replies[m], TRUE))
            /\ UNCHANGED <<alive, escaped>>
       ELSE /\ Update(m, [h[m] EXCEPT !.pc = "done", !.outcome = "rejected"],
                      sent[m], Settle(replies[m], FALSE))
            /\ escaped' = escaped \cup {m}
            /\ alive' \in AliveAfterRejection
  /\ UNCHANGED <<now, group, timer, pure>>

(* -------------------------------- time --------------------------------- *)
PendingTimes ==
  {h[m].wakeAt : m \in {x \in Msgs : h[x].pc = "sleep"}}
    \cup {timer[m].due : m \in {x \in Msgs : timer[x].state = "pending"}}

\* time passes, up to the next moment a timer is due
Tick ==
  /\ alive
  /\ \E t \in PendingTimes :
       /\ t > now
       /\ \A u \in PendingTimes : u > now => t <= u
       /\ now' = t
  /\ UNCHANGED <<alive, group, h, sent, replies, timer, escaped, pure>>

(* --------------------------- the specification ------------------------- *)
Init ==
  /\ now = 0
  /\ alive = TRUE
  /\ group \in {GroupOf(n) : n \in GroupSizes}
  /\ h = [m \in Msgs |-> Idle]
  /\ sent = [m \in Msgs |-> <<>>]
  /\ replies = [m \in Msgs |-> <<>>]
  /\ timer = [m \in Msgs |-> NoTimer]
  /\ escaped = {}
  /\ pure = [fn |-> "none"]

Next ==
  \/ \E m \in Msgs, message \in Messages : Receive(m, message)
  \/ \E m \in Msgs : GetContact(m)
  \/ \E m \in Msgs : GetChat(m)
  \/ \E m \in Msgs : GetMentions(m)
  \/ \E m \in Msgs : ReplyDone(m)
  \/ \E m \in Msgs : CatchReplyDone(m)
  \/ \E m \in Msgs : TagBatchSent(m)
  \/ \E m \in Msgs : TagSleepDone(m)
  \/ \E m \in Msgs : RemindConfirmSent(m)
  \/ \E m \in Msgs : TimerFire(m)
  \/ \E m \in Msgs : ReminderSent(m)
  \/ \E m \in Msgs : RoastSent(m)
  \/ Tick

Spec == Init /\ [][Next]_vars

(* ------------- tag-all commands while admin flags change ---------------- *)
\* Outside the program a group admin grants or revokes the admin flag of a
\* participant; the next message.getChat() (bot.js:162) returns it.
SetAdmin(id, flag) ==
  /\ alive
  /\ \E k \in 1..Len(group.participants) :
       /\ group.participants[k].id = id
       /\ group.participants[k].isAdmin # flag
       /\ group' = [group EXCEPT !.participants[k].isAdmin = flag]
  /\ UNCHANGED <<now, alive, h, sent, replies, timer, escaped, pure>>

\* the tag-all commands sent in the group by senders outside the allow-list
AdminMessages ==
  {message \in TagAllMessages :
     message.author # undefined /\ senderIdOf(message) \notin SUPER_ADMINS}

NextAdmin ==
  \/ \E m \in Msgs, message \in AdminMessages : Receive(m, message)
  \/ \E m \in Msgs : GetContact(m)
  \/ \E m \in Msgs : GetChat(m)
  \/ \E m \in Msgs : ReplyDone(m)
  \/ \E m \in Msgs : CatchReplyDone(m)
  \/ \E m \in Msgs : TagBatchSent(m)
  \/ \E m \in Msgs : TagSleepDone(m)
  \/ \E flag \in BOOLEAN : SetAdmin(User(2), flag)
  \/ Tick

SpecAdmin == Init /\ [][NextAdmin]_vars

(* ------------------- the helpers applied on their own ------------------ *)
ParseAlphabet == {"0", "1", "2", "h", "m", "s", " ", "x"}

\* participant lists of at most MaxPart entries with distinct identifiers
ParticipantLists ==
  {ps \in SeqsUpTo([id : {User(0), User(1), User(2)}, isAdmin : BOOLEAN], MaxPart) :
      \A a, b \in 1..Len(ps) : a # b => ps[a].id # ps[b].id}

AuthInputs ==
  {[message |-> PrivateMessage(<<>>, User(k), <<>>), chat |-> PrivateChatOf(User(k))] :
      k \in {0, 1, 2}}
    \cup {[message |-> GroupMessage(<<>>, User(k), <<>>),
           chat |-> [id |-> GroupId, isGroup |-> TRUE, participants |-> ps]] :
            k \in {0, 1, 2}, ps \in ParticipantLists}

\* texts that repeat a unit, letter by letter: "remind in 1 hour 1 hour",
\* and the same after the command word
RepeatedUnit ==
  <<" ", "i", "n", " ", "1", " ", "h", "o", "u", "r", " ", "1", " ", "h", "o", "u", "r">>

ParseTexts ==
  SeqsUpTo(ParseAlphabet, MaxLen)
    \cup {<<"r", "e", "m", "i", "n", "d">> \o RepeatedUnit, <<"$REMIND">> \o RepeatedUnit}

InitPure ==
  /\ now = 0
  /\ alive = TRUE
  /\ group = GroupOf(0)
  /\ h = [m \in Msgs |-> Idle]
  /\ sent = [m \in Msgs |-> <<>>]
  /\ replies = [m \in Msgs |-> <<>>]
  /\ timer = [m \in Msgs |-> NoTimer]
  /\ escaped = {}
  /\ \/ \E text \in ParseTexts :
          pure = [fn |-> "parse", text |-> text, done |-> FALSE, res |-> 0]
     \/ \E in \in AuthInputs :
          pure = [fn |-> "auth", message |-> in.message, chat |-> in.chat,
                  done |-> FALSE, res |-> FALSE]

\* bot.js:202-211 applied to a text
ApplyParse ==
  /\ pure.fn = "parse" /\ ~pure.done
  /\ pure' = [pure EXCEPT !.done = TRUE, !.res = totalSeconds(toLowerCase(pure.text))]
  /\ UNCHANGED <<now, alive, group, h, sent, replies, timer, escaped>>

\* bot.js:111-123 applied to a message and its chat
ApplyAuth ==
  /\ pure.fn = "auth" /\ ~pure.done
  /\ pure' = [pure EXCEPT !.done = TRUE, !.res = isUserAuthorized(pure.message, pure.chat)]
  /\ UNCHANGED <<now, alive, group, h, sent, replies, timer, escaped>>

NextPure == ApplyParse \/ ApplyAuth

SpecPure == InitPure /\ [][NextPure]_vars

(* ============================ the claims =============================== *)
TagSends(m) == SelectSeq(sent[m], LAMBDA c : c.type = "tag")
Done(m) == h[m].pc = "done"
IsTagAll(m) == h[m].pc # "idle" /\ h[m].handler = "tagall"
CeilDiv(n, b) == (n + b - 1) \div b

RECURSIVE Concat(_)
Concat(ss) == IF ss = <<>> THEN <<>> ELSE Head(ss) \o Concat(Tail(ss))

\* the sender is in the allow-list, or an admin participant of the group
Privileged(message, chat) ==
  \/ senderIdOf(message) \in SUPER_ADMINS
  \/ /\ chat.isGroup
     /\ \E k \in 1..Len(chat.participants) :
          /\ chat.participants[k].id = senderIdOf(message)
          /\ chat.participants[k].isAdmin

NoSendFailed(m) == \A k \in 1..Len(sent[m]) : sent[m][k].status # "failed"
Resolved(m) == h[m].chat # undefined

\* the tag messages of m are the batches of the participant list: ceil(N/B)
\* of them, at most B mentions each, the list in order when concatenated
BatchesOf(m, chat) ==
  LET T == TagSends(m)
      P == chat.participants
  IN  /\ Len(T) = CeilDiv(Len(P), TAG_BATCH_SIZE)
      /\ \A k \in 1..Len(T) : Len(T[k].mentions) <= TAG_BATCH_SIZE
      /\ Concat([k \in 1..Len(T) |-> T[k].mentions]) = [k \in 1..Len(P) |-> P[k].id]

AuthorizedInGroup(m) ==
  /\ IsTagAll(m)
  /\ ChatOf(h[m].message).isGroup
  /\ Privileged(h[m].message, ChatOf(h[m].message))

\* C1, as stated: a finished tag-all invocation by an authorized sender in
\* a group, none of whose sends failed, has sent exactly ceil(N/B) tag
\* messages of at most B mentions each, whose mention lists concatenated in
\* send order are the participant list.
C1_AsStated ==
  \A m \in Msgs :
    (AuthorizedInGroup(m) /\ Done(m) /\ NoSendFailed(m))
      => BatchesOf(m, ChatOf(h[m].message))

\* C1, amended: the same, for an invocation in which neither the
\* contact/chat resolution nor a send failed.
C1_Batches ==
  \A m \in Msgs :
    (AuthorizedInGroup(m) /\ Done(m) /\ Resolved(m) /\ NoSendFailed(m))
      => BatchesOf(m, ChatOf(h[m].message))

C1_Witness ==
  \E m \in Msgs :
    /\ AuthorizedInGroup(m) /\ Done(m) /\ Resolved(m) /\ NoSendFailed(m)
    /\ Len(TagSends(m)) = MaxBatches + 1
    /\ Len(TagSends(m)[MaxBatches + 1].mentions) = 1

\* C2: the batches of one invocation are sent one at a time and in list
\* order: only the latest send can be in flight, and each later send starts
\* no sooner than TAG_DELAY_MS after the send before it completed.
C2_Sequential ==
  \A m \in Msgs :
    LET T == TagSends(m)
    IN  \A k \in 1..Len(T) :
          /\ T[k].index = (k - 1) * TAG_BATCH_SIZE
          /\ k < Len(T) =>
               /\ T[k].status = "ok"
               /\ T[k + 1].t0 >= T[k].t1 + TAG_DELAY_MS

C2_Witness ==
  \E m \in Msgs :
    LET T == TagSends(m)
    IN  /\ Len(T) = MaxBatches + 1
        /\ T[1].t1 > T[1].t0
        /\ T[2].t0 > T[1].t1 + TAG_DELAY_MS

\* C3, as stated: there is no pause after the final batch, that is, the
\* handler is in its pause only while a batch is left to send.
C3_NoPauseAfterFinalBatch ==
  \A m \in Msgs :
    h[m].pc = "sleep" => NextIndex(h[m].i) < Len(h[m].chat.participants)

RepliesText(m) == [k \in 1..Len(replies[m]) |-> replies[m][k].text]
CountText(m, text) == Cardinality({k \in 1..Len(replies[m]) : replies[m][k].text = text})
\* the handler's catch block ran
Caught(m) == CountText(m, FailureNotice(h[m].handler)) > 0

UnprivilegedInGroup(m) ==
  /\ IsTagAll(m)
  /\ ChatOf(h[m].message).isGroup
  /\ ~Privileged(h[m].message, ChatOf(h[m].message))

\* C4, as stated: a tag-all command in a group from a sender who is neither
\* in the allow-list nor an admin of the group sends no tag message, and
\* the replies to it are the privilege refusal, once.
C4_AsStated ==
  \A m \in Msgs :
    UnprivilegedInGroup(m) =>
      /\ TagSends(m) = <<>>
      /\ Done(m) => RepliesText(m) = <<"privilege">>

\* C4, amended: such a command never sends a tag message; the privilege
\* refusal is replied at most once, the only other reply there can be is
\* the failure notice, and when nothing failed (the catch block did not
\* run) the replies are the privilege refusal, once.
C4_Refusal ==
  \A m \in Msgs :
    UnprivilegedInGroup(m) =>
      /\ sent[m] = <<>>
      /\ CountText(m, "privilege") <= 1
      /\ \A k \in 1..Len(replies[m]) : replies[m][k].text \in {"privilege", "tagall-failure"}
      /\ (Done(m) /\ ~Caught(m)) => RepliesText(m) = <<"privilege">>

C4_Witness ==
  \E m \in Msgs :
    /\ UnprivilegedInGroup(m) /\ Done(m) /\ ~Caught(m)
    /\ find(h[m].chat.participants, senderIdOf(h[m].message)) # undefined
    /\ RepliesText(m) = <<"privilege">>

\* C5: the authorization check applied to a message and its chat returns
\* TRUE exactly when the sender is in the allow-list (group or not,
\* participant or not) or the chat is a group with an entry of the sender
\* whose admin flag is set; it changes neither the message, the chat nor
\* anything else.
C5_Authorization ==
  [][(pure.fn = "auth" /\ ~pure.done /\ pure'.done) =>
        /\ pure'.res = Privileged(pure.message, pure.chat)
        /\ pure'.message = pure.message
        /\ pure'.chat = pure.chat
        /\ UNCHANGED <<now, alive, group, h, sent, replies, timer, escaped>>]_vars

C5_Witness ==
  /\ pure.fn = "auth" /\ pure.done /\ pure.res
  /\ senderIdOf(pure.message) \notin SUPER_ADMINS
  /\ Len(pure.chat.participants) = MaxPart

\* C6, as stated: no error is ever raised out of a handler and the
\* dispatcher, and the process is never terminated.
C6_SecondFailureSwallowed == escaped = {} /\ alive

\* C7: in a tag-all invocation no batch is sent twice, no batch is sent
\* after one whose send failed, none at all when the contact/chat
\* resolution failed; the failure notice is replied at most once, and
\* exactly once when the resolution or a send failed.
ResolutionFailed(m) == ~Resolved(m) /\ h[m].pc \in {"catchReply", "done"}
SendFailed(m) == \E k \in 1..Len(TagSends(m)) : TagSends(m)[k].status = "failed"

C7_AbortOnFailure ==
  \A m \in Msgs :
    IsTagAll(m) =>
      LET T == TagSends(m)
      IN  /\ \A j, k \in 1..Len(T) : j < k => T[j].index < T[k].index
          /\ \A k \in 1..Len(T) : T[k].status = "failed" => k = Len(T)
          /\ ResolutionFailed(m) => T = <<>>
          /\ CountText(m, "tagall-failure") <= 1
          /\ (ResolutionFailed(m) \/ SendFailed(m)) =>
               /\ CountText(m, "tagall-failure") = 1
               /\ h[m].pc \in {"catchReply", "done"}

C7_Witness ==
  \E m \in Msgs :
    /\ IsTagAll(m) /\ Done(m)
    /\ Len(TagSends(m)) = MaxBatches
    /\ TagSends(m)[MaxBatches].status = "failed"
    /\ Len(h[m].chat.participants) > MaxBatches * TAG_BATCH_SIZE
    /\ RepliesText(m) = <<"tagall-failure">>

InPrivateChat(m) == IsTagAll(m) /\ ~ChatOf(h[m].message).isGroup

\* C8, as stated: a tag-all command in a chat that is no group sends
\* nothing, and the replies to it are the group-only refusal, once.
C8_AsStated ==
  \A m \in Msgs :
    InPrivateChat(m) =>
      /\ sent[m] = <<>>
      /\ Done(m) => RepliesText(m) = <<"group-only">>

\* C8, amended: such a command never sends a message and never replies
\* with the privilege refusal, whoever sent it; the group-only refusal is
\* replied at most once, the only other reply there can be is the failure
\* notice, and when nothing failed the replies are the group-only refusal,
\* once.
C8_GroupOnly ==
  \A m \in Msgs :
    InPrivateChat(m) =>
      /\ sent[m] = <<>>
      /\ CountText(m, "group-only") <= 1
      /\ \A k \in 1..Len(replies[m]) : replies[m][k].text \in {"group-only", "tagall-failure"}
      /\ (Done(m) /\ ~Caught(m)) => RepliesText(m) = <<"group-only">>

C8_Witness ==
  \E m, n \in Msgs :
    /\ InPrivateChat(m) /\ Done(m) /\ RepliesText(m) = <<"group-only">>
    /\ senderIdOf(h[m].message) \in SUPER_ADMINS
    /\ InPrivateChat(n) /\ Done(n) /\ RepliesText(n) = <<"group-only">>
    /\ senderIdOf(h[n].message) \notin SUPER_ADMINS

IsRemind(m) == h[m].pc # "idle" /\ h[m].handler = "remind"

\* C9: a remind command whose parsed duration is <= 0 sends no message and
\* schedules no reminder; once the handler has parsed it, its first reply
\* is the format-not-understood message, which is replied once.
C9_ParseFailure ==
  \A m \in Msgs :
    (IsRemind(m) /\ totalSeconds(toLowerCase(h[m].message.body)) <= 0) =>
      /\ sent[m] = <<>>
      /\ timer[m].state = "none"
      /\ \A k \in 1..Len(replies[m]) : replies[m][k].text \in {"format", "remind-failure"}
      /\ Resolved(m) =>
           /\ Len(replies[m]) >= 1
           /\ replies[m][1].text = "format"
           /\ CountText(m, "format") = 1

C9_Witness ==
  \E m, n \in Msgs :
    /\ IsRemind(m) /\ Done(m) /\ RepliesText(m) = <<"format">>
    /\ match(toLowerCase(h[m].message.body), "h") # undefined
    /\ IsRemind(n) /\ Done(n) /\ RepliesText(n) = <<"format">>
    /\ timeParts(toLowerCase(h[n].message.body)) =
         [hours |-> undefined, minutes |-> undefined, seconds |-> undefined]

\* C10, as stated: when the reminder of a remind command is sent, the
\* confirmation was sent first, the handler has returned, the reminder goes
\* to the same chat and target as the confirmation, it is the only one, and
\* at least the parsed duration has passed since it was scheduled.
C10_AsStated ==
  \A m \in Msgs :
    timer[m].state \in {"sending", "sent", "failed"} =>
      /\ Done(m)
      /\ Len(sent[m]) = 2
      /\ sent[m][1].type = "confirm" /\ sent[m][1].status = "ok"
      /\ sent[m][2].type = "reminder"
      /\ sent[m][2].chat = sent[m][1].chat
      /\ sent[m][2].mentions = sent[m][1].mentions
      /\ (timer[m].firedAt - timer[m].setAt) \div 1000 >= timer[m].total

\* The same holds of the durations setTimeout takes as they are (at most
\* TIMEOUT_MAX_S seconds): C10_AsStated fails only above that.
C10_WithinTimeoutMax ==
  \A m \in Msgs :
    (timer[m].state \in {"sending", "sent", "failed"} /\ timer[m].total <= TIMEOUT_MAX_S) =>
      /\ Done(m)
      /\ Len(sent[m]) = 2
      /\ sent[m][1].type = "confirm" /\ sent[m][1].status = "ok"
      /\ sent[m][2].type = "reminder"
      /\ sent[m][2].chat = sent[m][1].chat
      /\ sent[m][2].mentions = sent[m][1].mentions
      /\ (timer[m].firedAt - timer[m].setAt) \div 1000 >= timer[m].total

\* C11: when the send of a reminder fails, that step makes no reply, raises
\* nothing, ends no process and leaves every handler, every other timer and
\* every other message's calls as they were; from then on the timer, the
\* sends and the replies of that command never change (no retry, no
\* apology).
C11_ReminderFailureLoggedOnly ==
  [][\A m \in Msgs :
       /\ (timer[m].state = "sending" /\ timer'[m].state = "failed") =>
            /\ replies' = replies /\ h' = h /\ escaped' = escaped /\ alive' = alive
            /\ Len(sent'[m]) = Len(sent[m])
            /\ \A n \in Msgs \ {m} : timer'[n] = timer[n] /\ sent'[n] = sent[n]
       /\ timer[m].state = "failed" =>
            /\ timer'[m] = timer[m]
            /\ sent'[m] = sent[m]
            /\ replies'[m] = replies[m]]_vars

C11_Witness ==
  \E m, n \in Msgs :
    /\ timer[m].state = "failed"
    /\ sent[m][Len(sent[m])].type = "reminder" /\ sent[m][Len(sent[m])].status = "failed"
    /\ replies[m] = <<>>
    /\ timer[n].state = "sent"
    /\ timer[n].firedAt >= timer[m].firedAt

IsRoast(m) == h[m].pc # "idle" /\ h[m].handler = "roast"
NoMention(m) == Len(h[m].message.mentions) = 0

\* C12, as stated: a roast command that mentions nobody sends nothing, does
\* not select from the corpus, and the replies to it are the usage message,
\* once.
C12_AsStated ==
  \A m \in Msgs :
    (IsRoast(m) /\ NoMention(m)) =>
      /\ sent[m] = <<>>
      /\ ~h[m].read
      /\ Done(m) => RepliesText(m) = <<"usage">>

\* C12, amended: such a command never sends a message and never reads or
\* selects from the corpus; the usage message is replied at most once, the
\* only other reply there can be is the failure notice, and when nothing
\* failed (the catch block did not run) the replies are the usage message,
\* once.
C12_NoMention ==
  \A m \in Msgs :
    (IsRoast(m) /\ NoMention(m)) =>
      /\ sent[m] = <<>>
      /\ ~h[m].read
      /\ CountText(m, "usage") <= 1
      /\ \A k \in 1..Len(replies[m]) : replies[m][k].text \in {"usage", "roast-failure"}
      /\ (Done(m) /\ ~Caught(m)) => RepliesText(m) = <<"usage">>

C12_Witness ==
  \E m \in Msgs :
    /\ IsRoast(m) /\ NoMention(m) /\ Done(m) /\ ~Caught(m)
    /\ RepliesText(m) = <<"usage">>
    /\ replies[m][1].status = "ok"

\* the handler the claim assigns to a text: the first of tag-all, remind,
\* roast whose prefix begins the trimmed, lower-cased text, if any
FirstMatch(body) ==
  LET text == toLowerCase(trim(body))
      order == <<"tagall", "remind", "roast">>
      prefix == [tagall |-> "$tagall!", remind |-> "$remind", roast |-> "$roast"]
      hits == {k \in 1..3 : startsWith(text, prefix[order[k]])}
  IN  IF hits = {} THEN "none"
      ELSE order[CHOOSE k \in hits : \A j \in hits : k <= j]

\* what each handler, and no other, sends and replies
SendsOf(handler) ==
  CASE handler = "tagall" -> {"tag"}
    [] handler = "remind" -> {"confirm", "reminder"}
    [] handler = "roast" -> {"roast"}
    [] OTHER -> {}

RepliesOf(handler) ==
  CASE handler = "tagall" -> {"group-only", "privilege", "tagall-failure"}
    [] handler = "remind" -> {"format", "remind-failure"}
    [] handler = "roast" -> {"usage", "roast-failure"}
    [] OTHER -> {}

\* C13: the handler invoked for a received message is the first of
\* tag-all, remind, roast whose prefix begins the trimmed, lower-cased text;
\* everything sent, replied and scheduled for the message is that one
\* handler's; for a text matching no prefix no handler runs, nothing is
\* sent, replied or scheduled and no error is raised.
C13_Dispatch ==
  \A m \in Msgs :
    h[m].pc # "idle" =>
      LET handler == FirstMatch(h[m].message.body)
      IN  /\ h[m].handler = handler
          /\ \A k \in 1..Len(sent[m]) : sent[m][k].type \in SendsOf(handler)
          /\ \A k \in 1..Len(replies[m]) : replies[m][k].text \in RepliesOf(handler)
          /\ timer[m].state # "none" => handler = "remind"
          /\ handler = "none" =>
               /\ Done(m) /\ h[m].outcome = "unmatched"
               /\ sent[m] = <<>> /\ replies[m] = <<>>
               /\ m \notin escaped

C13_Witness ==
  \E m, n \in Msgs :
    /\ h[m].pc # "idle" /\ h[m].handler = "tagall"
    /\ h[m].message.body # toLowerCase(trim(h[m].message.body))
    /\ Len(replies[m]) > 0
    /\ h[n].pc # "idle" /\ h[n].handler = "none"
    /\ \E k \in 1..Len(h[n].message.body) : h[n].message.body[k] = "$roast"
    /\ alive

\* a tag-all invocation by an authorized sender in a group, none of whose
\* own calls has failed
UnfailedTagAll(m) == AuthorizedInGroup(m) /\ ~Caught(m) /\ NoSendFailed(m)

\* C14, as stated: under every interleaving with other messages, a tag-all
\* invocation none of whose own calls fails sends its batches complete:
\* either it has finished with all of them sent, or the run can go on.
C14_CompleteUnderInterleaving ==
  \A m \in Msgs :
    UnfailedTagAll(m) =>
      \/ Done(m) /\ BatchesOf(m, h[m].chat)
      \/ ENABLED Next

\* C14, the part that holds: as long as the process lives, such an
\* invocation is never held up by another message, and the tag messages it
\* has sent so far are the first batches of its list, in order.
C14_WhileAlive ==
  \A m \in Msgs :
    (UnfailedTagAll(m) /\ alive) =>
      /\ (Done(m) /\ BatchesOf(m, h[m].chat)) \/ ENABLED Next
      /\ Resolved(m) =>
           LET T == TagSends(m)
               P == h[m].chat.participants
           IN  Concat([k \in 1..Len(T) |-> T[k].mentions])
                 = [k \in 1..Len(Concat([j \in 1..Len(T) |-> T[j].mentions])) |-> P[k].id]

\* C15: when a tag-all command in a group resolves its chat, the chat it
\* gets is the group as it is at that moment, and the outcome follows the
\* sender's privilege in that participant list: not privileged, the
\* privilege refusal and no tag message, then or later; privileged, no
\* refusal and the first batch (if there is a participant) is sent.
C15_FreshAuthorization ==
  [][\A m \in Msgs :
       /\ ( /\ h[m].handler = "tagall" /\ h[m].pc = "getChat"
            /\ h[m].message.author # undefined
            /\ h'[m].pc \notin {"getChat", "catchReply"} ) =>
              /\ h'[m].chat = group
              /\ ~Privileged(h[m].message, group) =>
                   /\ h'[m].pc = "reply" /\ h'[m].outcome = "privilege"
                   /\ sent'[m] = <<>>
              /\ Privileged(h[m].message, group) =>
                   /\ h'[m].outcome # "privilege"
                   /\ Len(group.participants) > 0 =>
                        /\ Len(sent'[m]) = 1 /\ sent'[m][1].type = "tag"
                        /\ sent'[m][1].mentions[1] = group.participants[1].id
       /\ CountText(m, "privilege") > 0 => sent'[m] = <<>>]_vars

\* the same non-listed sender: the first command tagged, the flag was
\* revoked, the second command is refused
C15_Witness ==
  \E m, n \in Msgs :
    /\ m < n /\ IsTagAll(m) /\ IsTagAll(n)
    /\ senderIdOf(h[m].message) = senderIdOf(h[n].message)
    /\ senderIdOf(h[m].message) \notin SUPER_ADMINS
    /\ Len(TagSends(m)) > 0
    /\ RepliesText(n) = <<"privilege">> /\ Done(n) /\ sent[n] = <<>>

\* the other way round: refused, the flag was granted, then tagged
C15_WitnessGranted ==
  \E m, n \in Msgs :
    /\ m < n /\ IsTagAll(m) /\ IsTagAll(n)
    /\ senderIdOf(h[m].message) = senderIdOf(h[n].message)
    /\ senderIdOf(h[m].message) \notin SUPER_ADMINS
    /\ RepliesText(m) = <<"privilege">> /\ sent[m] = <<>>
    /\ Len(TagSends(n)) > 0

ParseDone == pure.fn = "parse" /\ pure.done
SecondsOf(u) == CASE u = "h" -> 3600 [] u = "m" -> 60 [] u = "s" -> 1

\* C16, as stated: the duration parsed from "remind in 1 hour 1 hour" is
\* 7200 seconds.
C16_AsStated ==
  (ParseDone /\ pure.text = <<"r", "e", "m", "i", "n", "d">> \o RepeatedUnit) =>
    pure.res = 7200

\* C16, amended: a repeated unit is counted once, at its first occurrence:
\* "remind in 1 hour 1 hour" (also "$REMIND in 1 hour 1 hour") parses to 3600
\* seconds, and a text <d u d' u> of two amounts of the same unit parses to
\* the first amount.
C16_FirstOccurrenceOnly ==
  ParseDone =>
    /\ ( /\ Len(pure.text) > Len(RepeatedUnit)
         /\ Tail(pure.text) = RepeatedUnit ) => pure.res = 3600
    /\ \A u \in {"h", "m", "s"} :
         ( /\ Len(pure.text) = 4
           /\ IsDigit(pure.text[1]) /\ pure.text[2] = u
           /\ IsDigit(pure.text[3]) /\ pure.text[4] = u ) =>
             pure.res = DigitVal(pure.text[1]) * SecondsOf(u)

C16_Witness ==
  /\ ParseDone
  /\ pure.text = <<"r", "e", "m", "i", "n", "d">> \o RepeatedUnit
  /\ pure.res = 3600

\* the lines of a corpus that are not blank
NonBlank(file) == {file[k] : k \in {j \in 1..Len(file) : trim(file[j]) # <<>>}}

\* C17, as stated: a finished roast command with a mention has sent exactly
\* one message, a roast addressed to the first mentioned participant.
C17_AsStated ==
  \A m \in Msgs :
    (IsRoast(m) /\ ~NoMention(m) /\ Done(m)) =>
      /\ Len(sent[m]) = 1
      /\ sent[m][1].type = "roast"
      /\ sent[m][1].mentions = <<h[m].message.mentions[1]>>

\* C17, amended: a roast command with a mention whose handler gets to the corpus
\* makes exactly one send, to its chat, addressed to the first mentioned
\* participant and mentioning only that one; its roast line is the
\* unreadable-fallback when the read failed, the empty-fallback when no line
\* is left after filtering, a non-blank line of the corpus otherwise; the
\* failure notice is replied, and an error leaves the handler, only when
\* that send itself failed; and such a command that finished without its
\* catch block has read the corpus and sent.
C17_FallbackRoast ==
  \A m \in Msgs :
    /\ (IsRoast(m) /\ h[m].read) =>
         LET file == h[m].corpus
             first == h[m].message.mentions[1]
         IN  /\ Len(sent[m]) = 1
             /\ sent[m][1].type = "roast" /\ sent[m][1].chat = h[m].chat.id
             /\ sent[m][1].mentions = <<first>> /\ sent[m][1].text[1] = first[2]
             /\ file = undefined => sent[m][1].text[2] = ROAST_UNREADABLE
             /\ (file # undefined /\ NonBlank(file) = {}) => sent[m][1].text[2] = ROAST_EMPTY
             /\ (file # undefined /\ NonBlank(file) # {}) => sent[m][1].text[2] \in NonBlank(file)
             /\ Caught(m) => sent[m][1].status = "failed"
             /\ m \in escaped => sent[m][1].status = "failed"
    /\ (IsRoast(m) /\ ~NoMention(m) /\ Done(m) /\ ~Caught(m)) =>
         /\ h[m].read
         /\ replies[m] = <<>>
         /\ sent[m][1].status = "ok"

C17_Witness ==
  \E m, n \in Msgs :
    /\ IsRoast(m) /\ h[m].read /\ h[m].corpus = undefined
    /\ Done(m) /\ replies[m] = <<>> /\ sent[m][1].text[2] = ROAST_UNREADABLE
    /\ IsRoast(n) /\ h[n].read /\ h[n].corpus # undefined /\ NonBlank(h[n].corpus) = {}
    /\ Done(n) /\ replies[n] = <<>> /\ sent[n][1].text[2] = ROAST_EMPTY
    /\ alive

ConfirmOk(m) ==
  /\ Len(sent[m]) >= 1
  /\ sent[m][1].type = "confirm" /\ sent[m][1].status = "ok"

\* C18: a reminder is scheduled, and a reminder message sent, only for a
\* remind command whose confirmation send succeeded, and no earlier than
\* that; when the confirmation send or the resolution before it failed, no
\* reminder is scheduled or sent and the failure notice has been replied,
\* once.
C18_ScheduledAfterConfirmation ==
  \A m \in Msgs :
    /\ timer[m].state # "none" =>
         /\ IsRemind(m) /\ ConfirmOk(m)
         /\ sent[m][1].t1 <= timer[m].setAt
    /\ \A k \in 1..Len(sent[m]) :
         sent[m][k].type = "reminder" =>
           /\ k = 2 /\ ConfirmOk(m)
           /\ timer[m].state \in {"sending", "sent", "failed"}
           /\ sent[m][1].t1 <= sent[m][k].t0
    /\ ( /\ IsRemind(m)
         /\ \/ ResolutionFailed(m)
            \/ Len(sent[m]) >= 1 /\ sent[m][1].status = "failed" ) =>
           /\ timer[m].state = "none"
           /\ Len(sent[m]) <= 1
           /\ CountText(m, "remind-failure") = 1
    /\ (IsRemind(m) /\ Caught(m)) =>
         /\ timer[m].state = "none"
         /\ CountText(m, "remind-failure") = 1

\* one command's confirmation failed, nothing was scheduled and the failure
\* notice replied; another's succeeded and its reminder was sent
C18_Witness ==
  \E m, n \in Msgs :
    /\ IsRemind(m) /\ Done(m)
    /\ Len(sent[m]) = 1 /\ sent[m][1].type = "confirm" /\ sent[m][1].status = "failed"
    /\ timer[m].state = "none" /\ RepliesText(m) = <<"remind-failure">>
    /\ IsRemind(n) /\ ConfirmOk(n) /\ timer[n].state = "sent"
    /\ Len(sent[n]) = 2 /\ sent[n][2].type = "reminder"

\* the four ways a tag-all invocation ends
EndsGroupOnly(m) == RepliesText(m) = <<"group-only">> /\ sent[m] = <<>>
EndsPrivilege(m) == RepliesText(m) = <<"privilege">> /\ sent[m] = <<>>
EndsAllSent(m) ==
  replies[m] = <<>> /\ Resolved(m) /\ NoSendFailed(m) /\ BatchesOf(m, h[m].chat)
EndsAborted(m) == Caught(m)

Outcomes(m) ==
  {o \in {"group-only", "privilege", "all-sent", "aborted"} :
     \/ o = "group-only" /\ EndsGroupOnly(m)
     \/ o = "privilege" /\ EndsPrivilege(m)
     \/ o = "all-sent" /\ EndsAllSent(m)
     \/ o = "aborted" /\ EndsAborted(m)}

\* C19, as stated: every tag-all invocation terminates: in no state is one
\* left unfinished with nothing more that can happen.
C19_Terminates ==
  \A m \in Msgs :
    IsTagAll(m) => (Done(m) \/ ENABLED Next)

\* C19, the part that holds: a tag-all invocation makes at most ceil(N/B)
\* send attempts, one that has finished has ended in exactly one of the
\* four outcomes, and as long as the process lives an unfinished one can
\* go on.
C19_WhileAlive ==
  \A m \in Msgs :
    IsTagAll(m) =>
      /\ sent[m] = TagSends(m)
      /\ Resolved(m) =>
           Len(sent[m]) <= CeilDiv(Len(h[m].chat.participants), TAG_BATCH_SIZE)
      /\ ~Resolved(m) => sent[m] = <<>>
      /\ Done(m) => Cardinality(Outcomes(m)) = 1
      /\ (alive /\ ~Done(m)) => ENABLED Next

====
